---- MODULE Spec2Model ----
(***************************************************************************)
(* A model of the single-threaded WebSocket server of server.py: the       *)
(* select() loop of main, the handlers it dispatches to, the HTTP request  *)
(* parser and the handshake validator; and of the frame decoder of         *)
(* toy_websocket_frame.py, the class WebsocketFrame.                       *)
(*                                                                         *)
(* Python strings and the bytes on the wire are sequences of one-character *)
(* strings.  Every request the clients send is ASCII, except for the one   *)
(* byte XFF, which is no valid UTF-8 and makes bytes.decode() raise.       *)
(***************************************************************************)
EXTENDS Integers, Sequences, FiniteSets, TLC

(***************************************************************************)
(* Bounds of the model.                                                    *)
(***************************************************************************)
\* connections the clients open during one run
MaxConns == 2
\* chunks of WebSocket data a client sends after it was upgraded
MaxFrames == 1
\* header lines of a request given to parse_request by itself
MaxHeaders == 2
\* buffers given to one WebsocketFrame object
MaxCalls == 2

(***************************************************************************)
(* Strings.                                                                *)
(***************************************************************************)
CR == "\r"
LF == "\n"
SP == " "
XFF == "0xFF"
CRLF == <<CR, LF>>
CRLFCRLF == <<CR, LF, CR, LF>>
COLON_SP == <<":", " ">>

UpperCase == <<"A","B","C","D","E","F","G","H","I","J","K","L","M",
               "N","O","P","Q","R","S","T","U","V","W","X","Y","Z">>
LowerCase == <<"a","b","c","d","e","f","g","h","i","j","k","l","m",
               "n","o","p","q","r","s","t","u","v","w","x","y","z">>
Digits == <<"0","1","2","3","4","5","6","7","8","9">>

\* str.lower(), one character
LowerChar(c) ==
    IF \E i \in 1..26 : UpperCase[i] = c
    THEN LowerCase[CHOOSE i \in 1..26 : UpperCase[i] = c]
    ELSE c

\* str.lower()
Lower(s) == [i \in 1..Len(s) |-> LowerChar(s[i])]

\* s[-n:]
LastN(s, n) == IF Len(s) <= n THEN s ELSE SubSeq(s, Len(s) - n + 1, Len(s))

\* an argument is evaluated once, before the call, as Python evaluates it
With(v, F(_)) == CHOOSE r \in {F(w) : w \in {v}} : TRUE

\* str.find(sep) + 1: the position of the first occurrence of sep, 0 if none
Find(s, sep) ==
    With({i \in 1..(Len(s) - Len(sep) + 1) :
             SubSeq(s, i, i + Len(sep) - 1) = sep},
         LAMBDA hits :
             IF hits = {} THEN 0 ELSE CHOOSE i \in hits : \A j \in hits : i <= j)

\* str.split(sep): the list of the pieces between the occurrences of sep
RECURSIVE SplitString(_, _)
SplitString(s, sep) ==
    With(Find(s, sep), LAMBDA i :
        IF i = 0 THEN <<s>>
        ELSE <<SubSeq(s, 1, i - 1)>>
             \o With(SubSeq(s, i + Len(sep), Len(s)),
                     LAMBDA rest : SplitString(rest, sep)))

Split(s, sep) == With(s, LAMBDA str : SplitString(str, sep))

(***************************************************************************)
(* The constants of server.py.                                             *)
(***************************************************************************)
BUFFER_SIZE == 1048576
WS_ENDPOINT == <<"/","w","e","b","s","o","c","k","e","t">>
MAGIC_WEBSOCKET_UUID_STRING ==
    <<"2","5","8","E","A","F","A","5","-","E","9","1","4","-","4","7","D","A",
      "-","9","5","C","A","-","C","5","A","B","0","D","C","8","5","B","1","1">>
\* the static HTML document, kept as one character: no claim reads into it
DEFAULT_HTTP_RESPONSE == <<"<HTML>200 OK</HTML>">>

S_GET == <<"G","E","T">>
S_upgrade == <<"u","p","g","r","a","d","e">>
S_connection == <<"c","o","n","n","e","c","t","i","o","n">>
S_sec_websocket_key ==
    <<"s","e","c","-","w","e","b","s","o","c","k","e","t","-","k","e","y">>
S_websocket == <<"w","e","b","s","o","c","k","e","t">>
S_Upgrade == <<"U","p","g","r","a","d","e">>

(***************************************************************************)
(* Results of a call that may raise: exc is the name of the exception, ""  *)
(* when the call returned.                                                 *)
(***************************************************************************)
NoHeaders == <<>>

ParsedRequest(m, t, v, h) ==
    [exc |-> "", method |-> m, target |-> t, http_version |-> v, headers_map |-> h]

ParseError(e) ==
    [exc |-> e, method |-> <<>>, target |-> <<>>, http_version |-> <<>>,
     headers_map |-> NoHeaders]

\* the for loop of parse_request over the header lines; a line that does not
\* split on ': ' into exactly two pieces fails the unpacking
RECURSIVE ParseHeaders(_, _)
ParseHeaders(headers, headers_map) ==
    IF headers = <<>> THEN [exc |-> "", headers_map |-> headers_map]
    ELSE With(Split(Head(headers), COLON_SP), LAMBDA pieces :
             IF Len(pieces) # 2
             THEN [exc |-> "ValueError", headers_map |-> NoHeaders]
             ELSE With((Lower(pieces[1]) :> pieces[2]) @@ headers_map,
                       LAMBDA updated : ParseHeaders(Tail(headers), updated)))

parse_request(request) ==
    With(Split(Split(request, CRLFCRLF)[1], CRLF), LAMBDA split_request :
    With(Split(split_request[1], <<SP>>), LAMBDA request_line :
        IF Len(request_line) # 3 THEN ParseError("ValueError")
        ELSE With(ParseHeaders(Tail(split_request), NoHeaders), LAMBDA hs :
                 IF hs.exc # "" THEN ParseError(hs.exc)
                 ELSE ParsedRequest(request_line[1], request_line[2],
                                    request_line[3], hs.headers_map))))

(***************************************************************************)
(* float(): decimal literals (digits, at most one point, a digit on at     *)
(* least one side of it) give the number num / den; every other string     *)
(* over the characters of the model raises ValueError.                     *)
(***************************************************************************)
IsDigit(c) == \E i \in 1..10 : Digits[i] = c
DigitValue(c) == (CHOOSE i \in 1..10 : Digits[i] = c) - 1
AllDigits(s) == \A i \in 1..Len(s) : IsDigit(s[i])

RECURSIVE DecimalValue(_)
DecimalValue(s) ==
    IF s = <<>> THEN 0
    ELSE 10 * DecimalValue(SubSeq(s, 1, Len(s) - 1)) + DigitValue(s[Len(s)])

RECURSIVE Pow10(_)
Pow10(n) == IF n = 0 THEN 1 ELSE 10 * Pow10(n - 1)

float(s) ==
    With(Find(s, <<".">>), LAMBDA dot :
    LET whole == IF dot = 0 THEN s ELSE SubSeq(s, 1, dot - 1)
        frac  == IF dot = 0 THEN <<>> ELSE SubSeq(s, dot + 1, Len(s))
    IN  IF AllDigits(whole) /\ AllDigits(frac) /\ Len(whole) + Len(frac) > 0
        THEN [exc |-> "",
              num |-> DecimalValue(whole) * Pow10(Len(frac)) + DecimalValue(frac),
              den |-> Pow10(Len(frac))]
        ELSE [exc |-> "ValueError", num |-> 0, den |-> 1])

(***************************************************************************)
(* is_valid_ws_handshake_request.  The target is a parameter the function  *)
(* never reads: handle_request compares it with WS_ENDPOINT before the     *)
(* call.                                                                   *)
(***************************************************************************)
is_valid_ws_handshake_request(method, target, http_version, headers_map) ==
    LET is_get == method = S_GET
        headers_valid ==
            /\ S_upgrade \in DOMAIN headers_map
            /\ headers_map[S_upgrade] = S_websocket
            /\ S_connection \in DOMAIN headers_map
            /\ headers_map[S_connection] = S_Upgrade
            /\ S_sec_websocket_key \in DOMAIN headers_map
    IN  With(Split(http_version, <<"/">>), LAMBDA pieces :
            IF Len(pieces) < 2 THEN [exc |-> "IndexError", value |-> FALSE]
            ELSE With(float(pieces[2]), LAMBDA http_version_number :
                IF http_version_number.exc # ""
                THEN [exc |-> http_version_number.exc, value |-> FALSE]
                ELSE [exc |-> "",
                      \* http_version_number >= 1.1
                      value |-> /\ is_get
                                /\ http_version_number.num * 10
                                       >= 11 * http_version_number.den
                                /\ headers_valid]))

(***************************************************************************)
(* generate_sec_websocket_accept: base64(sha1(key + magic)).  The digest   *)
(* is not computed: the 28 characters of the result are written as the     *)
(* argument of the digest between two marks, which is one-to-one as the    *)
(* digest is taken to be.                                                  *)
(***************************************************************************)
b64encode_sha1(s) == <<"b64sha1(">> \o s \o <<")">>

\* a variant that folds the key to lower case before the digest
generate_sec_websocket_accept_lower(sec_websocket_key) ==
    LET combined == Lower(sec_websocket_key) \o MAGIC_WEBSOCKET_UUID_STRING
    IN  b64encode_sha1(combined)

generate_sec_websocket_accept(sec_websocket_key) ==
    LET combined == sec_websocket_key \o MAGIC_WEBSOCKET_UUID_STRING
    IN  b64encode_sha1(combined)

\* the response handle_ws_handshake_request builds and sends
websocket_response(headers_map) ==
    LET sec_websocket_accept_value ==
            generate_sec_websocket_accept(headers_map[S_sec_websocket_key])
    IN  <<"H","T","T","P","/","1",".","1",SP,"1","0","1",SP,"S","w","i","t","c",
          "h","i","n","g",SP,"P","r","o","t","o","c","o","l","s",CR,LF>>
        \o <<"U","p","g","r","a","d","e",":",SP,
             "w","e","b","s","o","c","k","e","t",CR,LF>>
        \o <<"C","o","n","n","e","c","t","i","o","n",":",SP,
             "U","p","g","r","a","d","e",CR,LF>>
        \o <<"S","e","c","-","W","e","b","S","o","c","k","e","t","-",
             "A","c","c","e","p","t",":",SP>>
        \o sec_websocket_accept_value \o CRLF
        \o CRLF

\* b'HTTP/1.1 400 Bad Request'
BAD_REQUEST_RESPONSE ==
    <<"H","T","T","P","/","1",".","1",SP,"4","0","0",SP,
      "B","a","d",SP,"R","e","q","u","e","s","t">>

\* b'HTTP/1.1 200 OK\r\n\r\n' + DEFAULT_HTTP_RESPONSE
OK_RESPONSE ==
    <<"H","T","T","P","/","1",".","1",SP,"2","0","0",SP,"O","K",CR,LF,CR,LF>>
    \o DEFAULT_HTTP_RESPONSE

\* bytes.decode(): UTF-8; the ASCII bytes are their characters
decode(data_in_bytes) ==
    IF \E i \in 1..Len(data_in_bytes) : data_in_bytes[i] = XFF
    THEN [exc |-> "UnicodeDecodeError", str |-> <<>>]
    ELSE [exc |-> "", str |-> data_in_bytes]

(***************************************************************************)
(* The requests the clients of the model send.                             *)
(***************************************************************************)
\* a Sec-WebSocket-Key value, in mixed case
SAMPLE_KEY == <<"d","G","h","l","=">>

RequestLine(method, target, version) ==
    method \o <<SP>> \o target \o <<SP>> \o version \o CRLF

HeaderLine(name, value) == name \o COLON_SP \o value \o CRLF

UpgradeHeaders ==
    HeaderLine(<<"U","p","g","r","a","d","e">>, S_websocket)
    \o HeaderLine(<<"C","o","n","n","e","c","t","i","o","n">>, S_Upgrade)

KeyHeader ==
    HeaderLine(<<"S","e","c","-","W","e","b","S","o","c","k","e","t","-","K","e","y">>,
               SAMPLE_KEY)

HTTP_1_1 == <<"H","T","T","P","/","1",".","1">>
HTTP_1_0 == <<"H","T","T","P","/","1",".","0">>
HTTP_x == <<"H","T","T","P","/","x">>
ROOT == <<"/">>

\* a valid handshake
REQ_HANDSHAKE ==
    RequestLine(S_GET, WS_ENDPOINT, HTTP_1_1) \o UpgradeHeaders \o KeyHeader \o CRLF
\* handshakes the validator turns down: an old version, no key
REQ_OLD_VERSION ==
    RequestLine(S_GET, WS_ENDPOINT, HTTP_1_0) \o UpgradeHeaders \o KeyHeader \o CRLF
REQ_NO_KEY ==
    RequestLine(S_GET, WS_ENDPOINT, HTTP_1_1) \o UpgradeHeaders \o CRLF
\* every upgrade header, but another target
REQ_OTHER_TARGET ==
    RequestLine(S_GET, ROOT, HTTP_1_1) \o UpgradeHeaders \o KeyHeader \o CRLF
\* another target, and a version that is no number
REQ_OTHER_TARGET_HTTP_x == RequestLine(S_GET, ROOT, HTTP_x) \o CRLF
\* a request line of two tokens
REQ_SHORT_LINE == S_GET \o <<SP>> \o WS_ENDPOINT \o CRLFCRLF
\* a request line of four tokens
REQ_LONG_LINE ==
    S_GET \o <<SP>> \o WS_ENDPOINT \o <<SP>> \o HTTP_1_1 \o <<SP>> \o <<"x">> \o CRLFCRLF
\* a header line without ': '
REQ_BAD_HEADER ==
    RequestLine(S_GET, WS_ENDPOINT, HTTP_1_1) \o <<"U","p","g","r","a","d","e">>
    \o CRLFCRLF
\* a version that is no number, on the endpoint
REQ_HTTP_x ==
    RequestLine(S_GET, WS_ENDPOINT, HTTP_x) \o UpgradeHeaders \o KeyHeader \o CRLF
\* bytes that are no UTF-8
REQ_NOT_UTF8 == <<XFF>> \o CRLFCRLF

\* a client that connects and sends nothing
NO_REQUEST == <<>>

Requests ==
    {REQ_HANDSHAKE, REQ_OLD_VERSION, REQ_NO_KEY, REQ_OTHER_TARGET,
     REQ_OTHER_TARGET_HTTP_x, REQ_SHORT_LINE, REQ_LONG_LINE, REQ_BAD_HEADER,
     REQ_HTTP_x, REQ_NOT_UTF8, NO_REQUEST}

\* a client sends its request whole, or in two segments cut in the request
\* line or just before the last CRLF
Segmentations(req) ==
    {IF req = <<>> THEN <<>> ELSE <<req>>}
    \cup {<<SubSeq(req, 1, k), SubSeq(req, k + 1, Len(req))>> :
            k \in {3, Len(req) - 2} \cap 1..(Len(req) - 1)}

\* the bytes of one masked text frame with the payload "hi"
SAMPLE_FRAME == <<"0x81", "0x82", "0x01", "0x02", "0x03", "0x04", "0x69", "0x6B">>

(***************************************************************************)
(* The state of main and of the sockets.                                   *)
(***************************************************************************)
VARIABLES
    pc,                \* where main is: "select", "for" (between two ready
                       \* sockets), "handle_request" / "handle_websocket_message"
                       \* (at the recv of the handler's loop), "raised"
    input_sockets,     \* the list given to select
    ws_sockets,        \* the sockets that were upgraded
    readable_sockets,  \* what select returned and the for loop has not reached
    client_socket,     \* the socket of the running handler
    message,           \* the local of handle_request
    error,             \* the exception that left main, "" if none
    listen_queue,      \* connections the listener has not accepted
    peer,              \* the client's end: "none", "open", "closed", "reset"
    tosend,            \* the segments a client has still to send
    frames,            \* WebSocket chunks a client has sent
    rx,                \* bytes received on a socket and not read
    closed,            \* sockets that close() was called on (fileno() = -1)
    sent,              \* the arguments of send(), per socket
    request_of,        \* history: the message handle_request left its loop with
    calls,             \* history: <<function, socket, was upgraded, is in ws_sockets>>
    nrecv,             \* history: recv calls of the running handler
    probe              \* a call of one function by itself: its arguments
                       \* and its result

vars == <<pc, input_sockets, ws_sockets, readable_sockets, client_socket, message,
          error, listen_queue, peer, tosend, frames, rx, closed, sent,
          request_of, calls, nrecv, probe>>

reactor_vars == <<pc, input_sockets, ws_sockets, readable_sockets, client_socket,
                  message, error, closed, sent, request_of, calls, nrecv, probe>>

tcp_socket == 0
NoProbe == [fn |-> "none"]
Clients == 1..MaxConns

Elems(list) == {list[i] : i \in 1..Len(list)}

\* list.remove(x): the first occurrence
Remove(list, x) ==
    LET i == CHOOSE i \in 1..Len(list) :
                 list[i] = x /\ \A j \in 1..(i - 1) : list[j] # x
    IN  SubSeq(list, 1, i - 1) \o SubSeq(list, i + 1, Len(list))

\* the sockets ever appended to ws_sockets
Upgraded == {c[2] : c \in {d \in calls : d[1] = "handle_ws_handshake_request"}}

InitReactor ==
    /\ pc = "select"
    /\ input_sockets = <<tcp_socket>>
    /\ ws_sockets = <<>>
    /\ readable_sockets = <<>>
    /\ client_socket = tcp_socket
    /\ message = <<>>
    /\ error = ""
    /\ listen_queue = <<>>
    /\ peer = [s \in Clients |-> "none"]
    /\ tosend = [s \in Clients |-> <<>>]
    /\ frames = [s \in Clients |-> 0]
    /\ rx = [s \in Clients |-> <<>>]
    /\ closed = {}
    /\ sent = [s \in Clients |-> <<>>]
    /\ request_of = [s \in Clients |-> <<>>]
    /\ calls = {}
    /\ nrecv = 0

Init ==
    /\ InitReactor
    /\ probe = NoProbe

(***************************************************************************)
(* The clients.                                                            *)
(***************************************************************************)
\* the response starts with the status line of the upgrade
Is101(response) == Find(response, <<"1","0","1",SP>>) = 10

\* a client connects and sends the first segment of its request, if it has
\* one: the connection waits in the listener's queue, and nothing the server
\* does before the bytes arrive tells the two steps apart
client_connect(s, segments) ==
    /\ pc # "raised"
    /\ peer[s] = "none"
    /\ \A t \in Clients : t < s => peer[t] # "none"
    /\ peer' = [peer EXCEPT ![s] = "open"]
    /\ rx' = [rx EXCEPT ![s] = IF segments = <<>> THEN <<>> ELSE Head(segments)]
    /\ tosend' = [tosend EXCEPT ![s] = IF segments = <<>> THEN <<>> ELSE Tail(segments)]
    /\ listen_queue' = Append(listen_queue, s)
    /\ UNCHANGED frames
    /\ UNCHANGED reactor_vars

\* a client sends the next segment of its request
client_send(s) ==
    /\ pc # "raised"
    /\ peer[s] = "open"
    /\ s \notin closed
    /\ tosend[s] # <<>>
    /\ rx' = [rx EXCEPT ![s] = @ \o Head(tosend[s])]
    /\ tosend' = [tosend EXCEPT ![s] = Tail(@)]
    /\ UNCHANGED <<peer, frames, listen_queue>>
    /\ UNCHANGED reactor_vars

\* a client that has got the 101 response sends WebSocket data
client_send_frame(s) ==
    /\ pc # "raised"
    /\ peer[s] = "open"
    /\ s \notin closed
    /\ sent[s] # <<>>
    /\ Is101(Head(sent[s]))
    /\ frames[s] < MaxFrames
    /\ frames' = [frames EXCEPT ![s] = @ + 1]
    /\ rx' = [rx EXCEPT ![s] = @ \o SAMPLE_FRAME]
    /\ UNCHANGED <<peer, tosend, listen_queue>>
    /\ UNCHANGED reactor_vars

\* a client closes its end: the server's recv returns b'' once rx is read
client_close(s) ==
    /\ pc # "raised"
    /\ peer[s] = "open"
    /\ s \notin closed
    /\ peer' = [peer EXCEPT ![s] = "closed"]
    /\ UNCHANGED <<tosend, frames, rx, listen_queue>>
    /\ UNCHANGED reactor_vars

\* a client resets the connection: what was not read is dropped, and the
\* server's recv raises ConnectionResetError
client_reset(s) ==
    /\ pc # "raised"
    /\ peer[s] = "open"
    /\ s \notin closed
    /\ peer' = [peer EXCEPT ![s] = "reset"]
    /\ rx' = [rx EXCEPT ![s] = <<>>]
    /\ UNCHANGED <<tosend, frames, listen_queue>>
    /\ UNCHANGED reactor_vars

(***************************************************************************)
(* main.                                                                   *)
(***************************************************************************)
\* select reports a socket readable: a connection to accept, bytes to read,
\* the end of the stream or an error
Readable(s) ==
    IF s = tcp_socket THEN listen_queue # <<>>
    ELSE rx[s] # <<>> \/ peer[s] \in {"closed", "reset"}

\* select.select(input_sockets, output_sockets, xlist, 5)[0]: the ready
\* sockets, none when the five seconds pass
select ==
    /\ pc = "select"
    /\ readable_sockets' = SelectSeq(input_sockets, Readable)
    /\ pc' = "for"
    /\ UNCHANGED <<input_sockets, ws_sockets, client_socket, message, error,
                   closed, sent, request_of, calls, nrecv>>
    /\ UNCHANGED <<listen_queue, peer, tosend, frames, rx, probe>>

\* the for loop is through: back to the while loop's select
for_done ==
    /\ pc = "for"
    /\ readable_sockets = <<>>
    /\ pc' = "select"
    /\ UNCHANGED <<input_sockets, ws_sockets, readable_sockets, client_socket,
                   message, error, closed, sent, request_of, calls, nrecv>>
    /\ UNCHANGED <<listen_queue, peer, tosend, frames, rx, probe>>

\* a variant without the test on ws_sockets
handler_for_no_ws_test(ready_socket, ws) ==
    IF ready_socket \in closed THEN "continue"
    ELSE IF ready_socket = tcp_socket THEN "handle_new_connection"
    ELSE "handle_request"

\* the branch the for loop's body takes for a ready socket
handler_for(ready_socket, ws) ==
    IF ready_socket \in closed THEN "continue"
    ELSE IF ready_socket = tcp_socket THEN "handle_new_connection"
    ELSE IF ready_socket \in Elems(ws) THEN "handle_websocket_message"
    ELSE "handle_request"

\* the call of a handler, as the history keeps it
Call(fn, s) == <<fn, s, s \in Upgraded, s \in Elems(ws_sockets)>>

\* one pass of the for loop's body, up to the handler's first recv;
\* handle_new_connection is run whole
for_body ==
    /\ pc = "for"
    /\ readable_sockets # <<>>
    /\ LET ready_socket == Head(readable_sockets)
           handler == handler_for(ready_socket, ws_sockets)
       IN  /\ readable_sockets' = Tail(readable_sockets)
           /\ CASE handler = "continue" ->
                     UNCHANGED <<pc, input_sockets, client_socket, message, calls,
                                 nrecv, listen_queue>>
                [] handler = "handle_new_connection" ->
                     \* client_socket, client_addr = main_door_socket.accept()
                     /\ client_socket' = Head(listen_queue)
                     /\ listen_queue' = Tail(listen_queue)
                     /\ input_sockets' = Append(input_sockets, Head(listen_queue))
                     /\ calls' = calls \cup {Call(handler, ready_socket)}
                     /\ UNCHANGED <<pc, message, nrecv>>
                [] handler = "handle_websocket_message" ->
                     /\ pc' = handler
                     /\ client_socket' = ready_socket
                     /\ message' = <<>>
                     /\ nrecv' = 0
                     /\ calls' = calls \cup {Call(handler, ready_socket)}
                     /\ UNCHANGED <<input_sockets, listen_queue>>
                [] handler = "handle_request" ->
                     /\ pc' = handler
                     /\ client_socket' = ready_socket
                     /\ message' = <<>>
                     /\ nrecv' = 0
                     /\ calls' = calls \cup {Call(handler, ready_socket)}
                     /\ UNCHANGED <<input_sockets, listen_queue>>
    /\ UNCHANGED <<ws_sockets, error, closed, sent, request_of>>
    /\ UNCHANGED <<peer, tosend, frames, rx, probe>>

\* an exception leaves the handler and, nothing catching it, main
raise(e) ==
    /\ pc' = "raised"
    /\ error' = e

\* a variant that leaves the socket in input_sockets
close_socket_keep_registered(s) ==
    /\ ws_sockets' = IF s \in Elems(ws_sockets) THEN Remove(ws_sockets, s)
                     ELSE ws_sockets
    /\ input_sockets' = input_sockets
    /\ closed' = closed \cup {s}

\* a variant that leaves the socket in ws_sockets
close_socket_leave_ws(s) ==
    /\ ws_sockets' = ws_sockets
    /\ input_sockets' = Remove(input_sockets, s)
    /\ closed' = closed \cup {s}

\* close_socket: both lists and the socket
close_socket(s) ==
    /\ ws_sockets' = IF s \in Elems(ws_sockets) THEN Remove(ws_sockets, s)
                     ELSE ws_sockets
    /\ input_sockets' = Remove(input_sockets, s)
    /\ closed' = closed \cup {s}

\* client_socket.recv(BUFFER_SIZE): what has arrived, BUFFER_SIZE bytes at most
recv(s) == SubSeq(rx[s], 1, IF Len(rx[s]) < BUFFER_SIZE THEN Len(rx[s]) ELSE BUFFER_SIZE)
after_recv(s) == [rx EXCEPT ![s] = SubSeq(@, Len(recv(s)) + 1, Len(@))]

\* handle_request past its loop: what it does with the message it has read.
\* fns are the functions it calls, response the bytes it sends;
\* upgrade: handle_ws_handshake_request ran; close: close_socket ran
RequestResult(e, f, r, u, c) ==
    [exc |-> e, fns |-> f, response |-> r, upgrade |-> u, close |-> c]

\* handle_request at the WS_ENDPOINT: the validator, then the handshake or
\* the 400 response
handshake_result(request) ==
    With(is_valid_ws_handshake_request(
             request.method, request.target, request.http_version,
             request.headers_map),
         LAMBDA valid :
             IF valid.exc # ""
             THEN RequestResult(valid.exc,
                      {"parse_request", "is_valid_ws_handshake_request"},
                      <<>>, FALSE, FALSE)
             ELSE IF valid.value
             THEN RequestResult("",
                      {"parse_request", "is_valid_ws_handshake_request",
                       "handle_ws_handshake_request"},
                      websocket_response(request.headers_map), TRUE, FALSE)
             ELSE RequestResult("",
                      {"parse_request", "is_valid_ws_handshake_request"},
                      BAD_REQUEST_RESPONSE, FALSE, TRUE))

\* a variant without the test on the target: any request is validated
handle_complete_request_any_target(msg) ==
    With(parse_request(msg), LAMBDA request :
        IF request.exc # ""
        THEN RequestResult(request.exc, {"parse_request"}, <<>>, FALSE, FALSE)
        ELSE handshake_result(request))

\* a variant that answers 200 and leaves the connection open
handle_complete_request_keep_open(msg) ==
    With(parse_request(msg), LAMBDA request :
        IF request.exc # ""
        THEN RequestResult(request.exc, {"parse_request"}, <<>>, FALSE, FALSE)
        ELSE IF request.target = WS_ENDPOINT
        THEN handshake_result(request)
        ELSE RequestResult("", {"parse_request"}, OK_RESPONSE, FALSE, FALSE))

handle_complete_request(msg) ==
    With(parse_request(msg), LAMBDA request :
        IF request.exc # ""
        THEN RequestResult(request.exc, {"parse_request"}, <<>>, FALSE, FALSE)
        ELSE IF request.target = WS_ENDPOINT
        THEN handshake_result(request)
        ELSE RequestResult("", {"parse_request"}, OK_RESPONSE, FALSE, TRUE))

\* the test that ends the loop of handle_request
loop_ends(msg, message_segment) ==
    Len(msg) > 4 /\ LastN(message_segment, 4) = CRLFCRLF

\* handle_request, from one recv to the next or to its return
handle_request ==
    /\ pc = "handle_request"
    /\ Readable(client_socket)
    /\ nrecv' = nrecv + 1
    /\ LET s == client_socket
           data_in_bytes == recv(s)
           message_segment == decode(data_in_bytes)
           msg == message \o message_segment.str
       IN  IF peer[s] = "reset"
           THEN /\ raise("ConnectionResetError")
                /\ UNCHANGED <<input_sockets, ws_sockets, message, closed, sent,
                               request_of, calls, rx>>
           ELSE /\ rx' = after_recv(s)
                /\ IF Len(data_in_bytes) = 0
                   THEN /\ close_socket(s)
                        /\ pc' = "for"
                        /\ UNCHANGED <<message, error, sent, request_of, calls>>
                   ELSE IF message_segment.exc # ""
                   THEN /\ raise(message_segment.exc)
                        /\ UNCHANGED <<input_sockets, ws_sockets, message, closed,
                                       sent, request_of, calls>>
                   ELSE /\ message' = msg
                        /\ IF ~loop_ends(msg, message_segment.str)
                           THEN UNCHANGED <<pc, input_sockets, ws_sockets, error,
                                            closed, sent, request_of, calls>>
                           ELSE \E result \in {handle_complete_request(msg)} :
                                /\ request_of' = [request_of EXCEPT ![s] = msg]
                                /\ calls' = calls \cup
                                       {Call(fn, s) : fn \in result.fns}
                                /\ IF result.exc # ""
                                   THEN /\ raise(result.exc)
                                        /\ UNCHANGED <<input_sockets, ws_sockets,
                                                       closed, sent>>
                                   ELSE /\ pc' = "for"
                                        /\ sent' = [sent EXCEPT
                                               ![s] = Append(@, result.response)]
                                        /\ UNCHANGED error
                                        /\ IF result.close THEN close_socket(s)
                                           ELSE /\ ws_sockets' =
                                                     IF result.upgrade
                                                     THEN Append(ws_sockets, s)
                                                     ELSE ws_sockets
                                                /\ UNCHANGED <<input_sockets, closed>>
    /\ UNCHANGED <<readable_sockets, client_socket>>
    /\ UNCHANGED <<listen_queue, peer, tosend, frames, probe>>

\* handle_websocket_message, from one recv to the next or to its return
handle_websocket_message ==
    /\ pc = "handle_websocket_message"
    /\ Readable(client_socket)
    /\ nrecv' = nrecv + 1
    /\ LET s == client_socket
           data_in_bytes == recv(s)
       IN  IF peer[s] = "reset"
           THEN /\ raise("ConnectionResetError")
                /\ UNCHANGED <<input_sockets, ws_sockets, closed, rx>>
           ELSE /\ rx' = after_recv(s)
                /\ IF Len(data_in_bytes) = 0
                   THEN /\ close_socket(s)
                        /\ pc' = "for"
                        /\ UNCHANGED error
                   ELSE UNCHANGED <<pc, input_sockets, ws_sockets, error, closed>>
    /\ UNCHANGED <<readable_sockets, client_socket, message, sent, request_of, calls>>
    /\ UNCHANGED <<listen_queue, peer, tosend, frames, probe>>

Next ==
    \/ \E s \in Clients : \E r \in Requests : \E segments \in Segmentations(r) :
           client_connect(s, segments)
    \/ \E s \in Clients : client_send(s)
    \/ \E s \in Clients : client_send_frame(s)
    \/ \E s \in Clients : client_close(s)
    \/ \E s \in Clients : client_reset(s)
    \/ select
    \/ for_done
    \/ for_body
    \/ handle_request
    \/ handle_websocket_message

Spec == Init /\ [][Next]_vars

(***************************************************************************)
(* Properties of the reactor.                                              *)
(***************************************************************************)
\* what parse_request and the validator make of a request: worked out once
\* for the requests of the model's clients
Reading(req) ==
    LET request == parse_request(req)
    IN  [request |-> request,
         valid   |-> is_valid_ws_handshake_request(
                         request.method, request.target, request.http_version,
                         request.headers_map)]
ReadingOfRequests == [req \in Requests \ {NO_REQUEST} |-> Reading(req)]
ReadingOf(req) ==
    IF req \in DOMAIN ReadingOfRequests THEN ReadingOfRequests[req] ELSE Reading(req)

\* the request handle_request read on s, parsed, and what the validator
\* makes of it
Parsed(s) == ReadingOf(request_of[s]).request
Validated(s) == ReadingOf(request_of[s]).valid

\* handle_request has read a complete request on s, and it parses
ReadParseable(s) == request_of[s] # <<>> /\ Parsed(s).exc = ""

\* ... and it is a handshake the validator accepts / turns down
ReadValidHandshake(s) ==
    /\ ReadParseable(s)
    /\ Parsed(s).target = WS_ENDPOINT
    /\ Validated(s).exc = ""
    /\ Validated(s).value
ReadInvalidHandshake(s) ==
    /\ ReadParseable(s)
    /\ Parsed(s).target = WS_ENDPOINT
    /\ Validated(s).exc = ""
    /\ ~Validated(s).value

Registered(s) == s \in Elems(input_sockets)
IsWebSocket(s) == s \in Elems(ws_sockets)

\* C1: a ready socket is handled by its role: no socket that was upgraded is
\* passed to handle_request or parse_request, and no socket outside
\* ws_sockets is passed to handle_websocket_message
C1_DispatchByRole ==
    /\ \A c \in calls :
          /\ c[1] \in {"handle_request", "parse_request"} => ~c[3] /\ ~c[4]
          /\ c[1] = "handle_websocket_message" => c[4]
    /\ pc = "handle_request" => ~IsWebSocket(client_socket)
    /\ pc = "handle_websocket_message" => IsWebSocket(client_socket)

\* an upgraded socket was given to handle_websocket_message, and after it a
\* connection that is not upgraded is given to handle_request
C1_Witness ==
    \E s, t \in Clients :
        /\ s # t
        /\ <<"handle_websocket_message", s, TRUE, TRUE>> \in calls
        /\ pc = "handle_request" /\ client_socket = t /\ t \notin Upgraded

\* C2: a socket is in ws_sockets only after handle_request read on it a
\* complete request for WS_ENDPOINT that the validator accepted
C2_UpgradeOnlyAfterValidHandshake ==
    \A s \in Clients :
        IsWebSocket(s) \/ s \in Upgraded =>
            /\ ReadValidHandshake(s)
            /\ <<"is_valid_ws_handshake_request", s, FALSE, FALSE>> \in calls

\* one connection is upgraded; the other sent a request that was turned down
\* and one that closed early never was
C2_Witness ==
    \E s, t \in Clients :
        /\ IsWebSocket(s)
        /\ request_of[t] # <<>> /\ ~IsWebSocket(t) /\ t \in closed

\* the response to a handshake with the given key, character by character
SwitchingProtocols(key) ==
    <<"H","T","T","P","/","1",".","1"," ","1","0","1"," ","S","w","i","t","c","h",
      "i","n","g"," ","P","r","o","t","o","c","o","l","s","\r","\n",
      "U","p","g","r","a","d","e",":"," ","w","e","b","s","o","c","k","e","t",
      "\r","\n",
      "C","o","n","n","e","c","t","i","o","n",":"," ","U","p","g","r","a","d","e",
      "\r","\n",
      "S","e","c","-","W","e","b","S","o","c","k","e","t","-","A","c","c","e","p",
      "t",":"," ">>
    \o b64encode_sha1(key \o MAGIC_WEBSOCKET_UUID_STRING)
    \o <<"\r","\n","\r","\n">>

\* the value of the Sec-WebSocket-Key header line of a request, as sent
RECURSIVE KeyOfLines(_)
KeyOfLines(lines) ==
    IF lines = <<>> THEN <<>>
    ELSE IF Len(Head(lines)) >= 19
            /\ Lower(SubSeq(Head(lines), 1, 17)) = S_sec_websocket_key
    THEN SubSeq(Head(lines), 20, Len(Head(lines)))
    ELSE KeyOfLines(Tail(lines))
KeySent(req) == KeyOfLines(Split(req, CRLF))

\* C3: a valid handshake is answered by exactly one response, the 101 with
\* the accept value of the key the request carried, and the connection
\* stays open as a WebSocket: it is closed only once the client has closed
C3_ValidHandshakeSwitchesProtocols ==
    \A s \in Clients :
        ReadValidHandshake(s) =>
            /\ sent[s] = <<SwitchingProtocols(KeySent(request_of[s]))>>
            /\ s \in Upgraded
            /\ s \notin closed => Registered(s) /\ IsWebSocket(s)
            /\ s \in closed => peer[s] = "closed"

\* an upgraded connection whose client has sent WebSocket data:
\* handle_websocket_message has read all of it and the connection is open
C3_Witness ==
    \E s \in Clients :
        /\ ReadValidHandshake(s)
        /\ frames[s] > 0 /\ rx[s] = <<>> /\ peer[s] = "open"
        /\ pc = "handle_websocket_message" /\ client_socket = s /\ nrecv > 0
        /\ IsWebSocket(s) /\ Registered(s) /\ s \notin closed

\* C4: a request for the endpoint that the validator turns down is answered
\* by the 400 status line alone; the connection is closed and in no list,
\* and never was in ws_sockets
C4_InvalidHandshakeBadRequest ==
    \A s \in Clients :
        ReadInvalidHandshake(s) =>
            /\ Len(sent[s]) = 1
            /\ sent[s][1] = <<"H","T","T","P","/","1",".","1"," ","4","0","0"," ",
                              "B","a","d"," ","R","e","q","u","e","s","t">>
            /\ s \in closed
            /\ ~Registered(s)
            /\ ~IsWebSocket(s)
            /\ s \notin Upgraded

C4_Witness ==
    \E s, t \in Clients :
        /\ ReadInvalidHandshake(s) /\ request_of[s] = REQ_NO_KEY
        /\ ReadInvalidHandshake(t) /\ request_of[t] = REQ_OLD_VERSION

\* C5: a parseable request for another target never reaches the validator
\* and never upgrades; it gets the fixed 200 response and the connection is
\* closed and in no list
C5_OtherTargetPlainHttp ==
    \A s \in Clients :
        ReadParseable(s) /\ Parsed(s).target # WS_ENDPOINT =>
            /\ \A c \in calls :
                  c[2] = s => c[1] \notin {"is_valid_ws_handshake_request",
                                           "handle_ws_handshake_request",
                                           "handle_websocket_message"}
            /\ ~IsWebSocket(s)
            /\ Len(sent[s]) = 1
            /\ SubSeq(sent[s][1], 1, 19) =
                   <<"H","T","T","P","/","1",".","1"," ","2","0","0"," ","O","K",
                     "\r","\n","\r","\n">>
            /\ sent[s][1] = OK_RESPONSE
            /\ s \in closed
            /\ ~Registered(s)

\* both: a request with every upgrade header, and one whose version is no
\* number, each for another target
C5_Witness ==
    \E s, t \in Clients :
        /\ request_of[s] = REQ_OTHER_TARGET /\ s \in closed
        /\ request_of[t] = REQ_OTHER_TARGET_HTTP_x /\ t \in closed

\* C8: a handler makes at most one recv call for one readiness report
C8_OneRecvPerReadiness == nrecv <= 1

\* C9: no error on a client connection ends the loop of main (the model has
\* no failure of the listener)
C9_LoopSurvivesClientErrors == pc # "raised" /\ error = ""

\* a request ended by CRLF-CRLF is malformed: a request line that is not
\* three tokens, a header line without ': ', or a version that is no number
IsNumber(str) ==
    LET pieces == Split(str, <<".">>)
    IN  /\ Len(pieces) \in {1, 2}
        /\ \A i \in 1..Len(pieces) : pieces[i] # <<>> /\ AllDigits(pieces[i])
Malformed(req) ==
    LET lines  == Split(Split(req, CRLFCRLF)[1], CRLF)
        tokens == Split(lines[1], <<SP>>)
        slash  == Find(tokens[3], <<"/">>)
    IN  \/ Len(tokens) # 3
        \/ \E i \in 2..Len(lines) : Find(lines[i], COLON_SP) = 0
        \/ slash = 0
        \/ ~IsNumber(SubSeq(tokens[3], slash + 1, Len(tokens[3])))

\* C10: the connection a malformed request came on ends closed, in neither
\* list
C10_MalformedRequestClosesConnection ==
    \A s \in Clients :
        request_of[s] # <<>> /\ Malformed(request_of[s]) =>
            /\ s \in closed
            /\ ~Registered(s)
            /\ ~IsWebSocket(s)

\* C11: handle_request takes a request as complete as soon as the bytes it
\* has accumulated contain CRLF-CRLF, however they were cut into segments
\* (it is not at its recv with the terminator in message), and not before
C11_CompleteAsSoonAsTerminated ==
    /\ pc = "handle_request" => Find(message, CRLFCRLF) = 0
    /\ \A s \in Clients :
          request_of[s] # <<>> => Find(request_of[s], CRLFCRLF) # 0

\* handle_request closed s on a zero-length read: s is closed and
\* handle_request never left its loop with a request on it
ClosedBeforeRequest(s) == s \in closed /\ request_of[s] = <<>>

\* C12: a connection whose peer closed before handle_request saw the end of
\* a request is closed and in no list, and nothing was sent on it
C12_EarlyCloseNoResponse ==
    \A s \in Clients :
        ClosedBeforeRequest(s) =>
            /\ ~Registered(s)
            /\ ~IsWebSocket(s)
            /\ sent[s] = <<>>

\* a client sent the first segment of its request, closed, and
\* handle_request read the segment and then the end of the stream; another
\* closed without a byte
C12_Witness ==
    \E s, t \in Clients :
        /\ ClosedBeforeRequest(s) /\ tosend[s] # <<>> /\ peer[s] = "closed"
        /\ s # t /\ ClosedBeforeRequest(t) /\ tosend[t] = <<>>

\* C13: the WebSocket data read on an upgraded connection is given to the
\* frame decoder: once a frame the client sent has been read, a call of
\* populateFromWebsocketFrameMessage for the connection is on record
C13_FramesReadAreDecoded ==
    \A s \in Clients :
        frames[s] > 0 /\ rx[s] = <<>> /\ peer[s] # "reset" =>
            \E c \in calls :
                c[1] = "populateFromWebsocketFrameMessage" /\ c[2] = s

NoDuplicates(list) ==
    \A i, j \in 1..Len(list) : i # j => list[i] # list[j]

\* C20: when main is at select, ws_sockets is within input_sockets, the
\* listener is in input_sockets and not in ws_sockets, no socket is twice in
\* a list, and no closed socket is in a list
C20_RegistryWellFormed ==
    pc = "select" =>
        /\ Elems(ws_sockets) \subseteq Elems(input_sockets)
        /\ tcp_socket \in Elems(input_sockets)
        /\ tcp_socket \notin Elems(ws_sockets)
        /\ NoDuplicates(input_sockets)
        /\ NoDuplicates(ws_sockets)
        /\ \A s \in closed : ~Registered(s) /\ ~IsWebSocket(s)

\* main is back at select after an upgraded connection was closed, with
\* another connection upgraded and open
C20_Witness ==
    /\ pc = "select"
    /\ \E s, t \in Clients :
          /\ s \in Upgraded /\ s \in closed
          /\ IsWebSocket(t) /\ Registered(t) /\ t \notin closed

(***************************************************************************)
(* The reactor under fairness: main runs on as long as it is not blocked   *)
(* in select or recv.  The clients owe nothing.                            *)
(***************************************************************************)
FairSpec ==
    /\ Spec
    /\ WF_vars(select)
    /\ WF_vars(for_done)
    /\ WF_vars(for_body)
    /\ WF_vars(handle_request)
    /\ WF_vars(handle_websocket_message)

\* s is registered and has something to handle
Ready(s) == Registered(s) /\ Readable(s)

\* C7: a registered socket that is readable is handled in the end (its
\* connection accepted, its bytes read or its end of stream seen), whatever
\* the other connections do; a run that an exception ended is not counted
C7_ReadableEventuallyHandled ==
    \A s \in Clients \cup {tcp_socket} :
        (Ready(s) /\ pc # "raised") ~> (~Ready(s) \/ pc = "raised")

(***************************************************************************)
(* The handshake validator by itself: the test of handle_request on the    *)
(* target, then is_valid_ws_handshake_request.                             *)
(***************************************************************************)
ws_handshake_check(method, target, http_version, headers_map) ==
    LET valid == is_valid_ws_handshake_request(method, target, http_version,
                                               headers_map)
    IN  IF target = WS_ENDPOINT
        THEN IF valid.exc # "" THEN valid.exc
             ELSE IF valid.value THEN "valid" ELSE "invalid"
        ELSE "invalid"

\* the dict with the given items
MapOf(items) ==
    [name \in {i[1] : i \in items} |-> (CHOOSE i \in items : i[1] = name)[2]]

ValidatorMethods == {S_GET, <<"P","O","S","T">>, <<"g","e","t">>}
ValidatorTargets == {WS_ENDPOINT, ROOT}
ValidatorVersions ==
    {HTTP_1_1, HTTP_1_0, HTTP_x, <<"H","T","T","P","/","2">>,
     <<"H","T","T","P","/","0",".","9">>, <<"H","T","T","P">>}
ValidatorHeaders ==
    {MapOf(u \cup c \cup k) :
        u \in {{}, {<<S_upgrade, S_websocket>>},
               {<<S_upgrade, <<"W","e","b","S","o","c","k","e","t">> >>}},
        c \in {{}, {<<S_connection, S_Upgrade>>}, {<<S_connection, S_upgrade>>}},
        k \in {{}, {<<S_sec_websocket_key, SAMPLE_KEY>>}}}

InitValidator ==
    /\ InitReactor
    /\ probe \in [fn : {"ws_handshake_check"},
                  method : ValidatorMethods,
                  target : ValidatorTargets,
                  http_version : ValidatorVersions,
                  headers_map : ValidatorHeaders,
                  result : {"pending"}]

call_ws_handshake_check ==
    /\ probe.fn = "ws_handshake_check"
    /\ probe.result = "pending"
    /\ probe' = [probe EXCEPT !.result =
                    ws_handshake_check(probe.method, probe.target,
                                       probe.http_version, probe.headers_map)]
    /\ UNCHANGED <<pc, input_sockets, ws_sockets, readable_sockets, client_socket,
                   message, error, listen_queue, peer, tosend, frames, rx, closed,
                   sent, request_of, calls, nrecv>>

NextValidator == call_ws_handshake_check

SpecValidator == InitValidator /\ [][NextValidator]_vars

\* every condition of a handshake holds of the arguments
AllConditionsHold(p) ==
    /\ p.method = <<"G","E","T">>
    /\ p.target = <<"/","w","e","b","s","o","c","k","e","t">>
    /\ p.http_version \in {<<"H","T","T","P","/","1",".","1">>,
                           <<"H","T","T","P","/","2">>}
    /\ S_upgrade \in DOMAIN p.headers_map
    /\ p.headers_map[S_upgrade] = <<"w","e","b","s","o","c","k","e","t">>
    /\ S_connection \in DOMAIN p.headers_map
    /\ p.headers_map[S_connection] = <<"U","p","g","r","a","d","e">>
    /\ S_sec_websocket_key \in DOMAIN p.headers_map

\* C6: the validator returns valid when every condition holds and returns
\* invalid, raising nothing, when any condition fails
C6_ValidatorIsConjunction ==
    probe.fn = "ws_handshake_check" /\ probe.result # "pending" =>
        probe.result = IF AllConditionsHold(probe) THEN "valid" ELSE "invalid"

(***************************************************************************)
(* parse_request by itself, on requests built from a request line, header  *)
(* lines with names that differ, the blank line and a body.                *)
(***************************************************************************)
ParserMethods == {S_GET}
ParserTargets == {WS_ENDPOINT, ROOT}
ParserVersions == {HTTP_1_1}
ParserNames == {<<"H","o","s","t">>, S_Upgrade, <<"X","-","A">>}
\* header values: plain, in mixed case, and one that holds ': '
ParserValues == {<<"a">>, <<"A","b">>, <<"a",":"," ","b">>}
ParserBodies == {<<>>, <<"x">>}

\* the lists of at most MaxHeaders header lines <<name, value>>, no name twice
ParserHeaderLists ==
    UNION {{hs \in [1..n -> ParserNames \X ParserValues] :
               \A i, j \in 1..n : i # j => hs[i][1] # hs[j][1]} :
           n \in 0..MaxHeaders}

RECURSIVE HeaderLines(_)
HeaderLines(hs) ==
    IF hs = <<>> THEN <<>>
    ELSE HeaderLine(Head(hs)[1], Head(hs)[2]) \o HeaderLines(Tail(hs))

\* the request as it is on the wire
RequestOf(p) ==
    RequestLine(p.method, p.target, p.http_version) \o HeaderLines(p.headers)
    \o CRLF \o p.body

InitParser ==
    /\ InitReactor
    /\ probe \in [fn : {"parse_request"},
                  method : ParserMethods,
                  target : ParserTargets,
                  http_version : ParserVersions,
                  headers : ParserHeaderLists,
                  body : ParserBodies,
                  called : {FALSE},
                  result : {ParseError("")}]

call_parse_request ==
    /\ probe.fn = "parse_request"
    /\ ~probe.called
    /\ probe' = [probe EXCEPT !.called = TRUE,
                              !.result = parse_request(RequestOf(probe))]
    /\ UNCHANGED <<pc, input_sockets, ws_sockets, readable_sockets, client_socket,
                   message, error, listen_queue, peer, tosend, frames, rx, closed,
                   sent, request_of, calls, nrecv>>

NextParser == call_parse_request

SpecParser == InitParser /\ [][NextParser]_vars

\* C16: of a request with three tokens in its request line and N header
\* lines 'name: value', parse_request returns the three tokens and a map of
\* N entries, each lower-cased name with its value as sent, even when the
\* value holds ': '
C16_ParserRoundTrip ==
    probe.fn = "parse_request" /\ probe.called =>
        /\ probe.result.exc = ""
        /\ probe.result.method = probe.method
        /\ probe.result.target = probe.target
        /\ probe.result.http_version = probe.http_version
        /\ DOMAIN probe.result.headers_map =
               {Lower(probe.headers[i][1]) : i \in 1..Len(probe.headers)}
        /\ Cardinality(DOMAIN probe.result.headers_map) = Len(probe.headers)
        /\ \A i \in 1..Len(probe.headers) :
              probe.result.headers_map[Lower(probe.headers[i][1])]
                  = probe.headers[i][2]

(***************************************************************************)
(* toy_websocket_frame.py: the class WebsocketFrame.  A byte is a number   *)
(* in 0..255, bytes are a sequence of them; data_in_bytes[k] of the source *)
(* is data_in_bytes[k + 1] here.  An object is the record of its           *)
(* attributes; a method gives back [exc, self], the exception it raised    *)
(* ("" when it returned) and the object as it left it.                     *)
(***************************************************************************)
\* data_in_bytes[start:stop]: a slice never raises
Slice(data_in_bytes, start, stop) ==
    With(IF stop < Len(data_in_bytes) THEN stop ELSE Len(data_in_bytes),
         LAMBDA last :
             IF start >= last THEN <<>> ELSE SubSeq(data_in_bytes, start + 1, last))

\* bytes(n) of a number n: n zero bytes
zero_bytes(n) == [i \in 1..n |-> 0]

\* the number the first n bytes of bs are, big-endian
RECURSIVE from_bytes_upto(_, _)
from_bytes_upto(bs, n) ==
    IF n = 0 THEN 0 ELSE 256 * from_bytes_upto(bs, n - 1) + bs[n]

\* int.from_bytes(bs, byteorder='big'): the leading zero bytes add nothing
from_bytes_big(bs0) ==
    With(bs0, LAMBDA bs :
    With({i \in 1..Len(bs) : bs[i] # 0}, LAMBDA nonzero :
        IF nonzero = {} THEN 0
        ELSE With(SubSeq(bs, CHOOSE i \in nonzero : \A j \in nonzero : i <= j,
                         Len(bs)),
                  LAMBDA digits : from_bytes_upto(digits, Len(digits)))))

\* the bit of weight w of a ^ b
XorBit(a, b, w) == IF (a \div w) % 2 # (b \div w) % 2 THEN w ELSE 0

\* a ^ b on bytes
Xor(a, b) ==
    IF b = 0 THEN a
    ELSE XorBit(a, b, 1) + XorBit(a, b, 2) + XorBit(a, b, 4) + XorBit(a, b, 8)
         + XorBit(a, b, 16) + XorBit(a, b, 32) + XorBit(a, b, 64)
         + XorBit(a, b, 128)

\* a byte & a mask of one bit w
AndBit(a, w) == ((a \div w) % 2) * w

\* a new object: the class attributes; _mask, _mask_key_start and
\* _masking_key do not exist yet, and no method reads them before it or an
\* earlier step of the same call has set them
WebsocketFrame ==
    [_fin |-> 0, _rsv1 |-> 0, _rsv2 |-> 0, _rsv3 |-> 0, _opcode |-> 0,
     _payload_length |-> 0, _payload_data |-> <<>>,
     _mask |-> 0, _mask_key_start |-> 0, _masking_key |-> <<>>]

Returned(self) == [exc |-> "", self |-> self]
Raised(e, self) == [exc |-> e, self |-> self]

_parse_flags(self, data_in_bytes) ==
    IF Len(data_in_bytes) < 1 THEN Raised("IndexError", self)
    ELSE With([self EXCEPT !._fin = AndBit(data_in_bytes[1], 128),
                           !._rsv1 = AndBit(data_in_bytes[1], 64),
                           !._rsv2 = AndBit(data_in_bytes[1], 32),
                           !._rsv3 = AndBit(data_in_bytes[1], 16),
                           !._opcode = data_in_bytes[1] % 16],
              LAMBDA flagged :
                  IF Len(data_in_bytes) < 2 THEN Raised("IndexError", flagged)
                  ELSE Returned([flagged EXCEPT
                                    !._mask = AndBit(data_in_bytes[2], 128)]))

_parse_payload_length(self, data_in_bytes) ==
    With(data_in_bytes[2] % 128, LAMBDA payload_length :
        IF payload_length = 126
        THEN [self EXCEPT
                 !._payload_length =
                     from_bytes_big(zero_bytes(payload_length)
                                    \o Slice(data_in_bytes, 2, 4)),
                 !._mask_key_start = 4]
        ELSE IF payload_length = 127
        THEN [self EXCEPT
                 !._payload_length =
                     from_bytes_big(zero_bytes(payload_length)
                                    \o Slice(data_in_bytes, 2, 9)),
                 !._mask_key_start = 10]
        ELSE [self EXCEPT !._payload_length = payload_length,
                          !._mask_key_start = 2])

_maybe_parse_masking_key(self, data_in_bytes) ==
    IF self._mask = 0 THEN self
    ELSE [self EXCEPT !._masking_key =
             Slice(data_in_bytes, self._mask_key_start, self._mask_key_start + 4)]

\* the list comprehension of _parse_payload; with bytes to decode the key
\* has its four bytes, the slice of the payload starting behind it
unmask(encoded_payload, masking_key) ==
    [i \in 1..Len(encoded_payload) |->
        Xor(encoded_payload[i], masking_key[((i - 1) % 4) + 1])]

_parse_payload(self, data_in_bytes) ==
    IF self._payload_length = 0 THEN self
    ELSE IF self._mask # 0
    THEN With(Slice(data_in_bytes, self._mask_key_start + 4, Len(data_in_bytes)),
              LAMBDA encoded_payload :
                  [self EXCEPT !._payload_data =
                      unmask(encoded_payload, self._masking_key)])
    ELSE [self EXCEPT !._payload_data =
             Slice(data_in_bytes, self._mask_key_start, Len(data_in_bytes))]

populateFromWebsocketFrameMessage(self, data_in_bytes) ==
    With(_parse_flags(self, data_in_bytes), LAMBDA flags :
        IF flags.exc # "" THEN flags
        ELSE With(_parse_payload_length(flags.self, data_in_bytes), LAMBDA sized :
             With(_maybe_parse_masking_key(sized, data_in_bytes), LAMBDA keyed :
                 Returned(_parse_payload(keyed, data_in_bytes)))))

get_payload_data(self) == self._payload_data

(***************************************************************************)
(* The decoder by itself: one WebsocketFrame object is given buffers, one  *)
(* call after the other.  A buffer is a frame as a client builds it (RFC   *)
(* 6455 section 5.2: FIN, opcode text, the shortest form of the length),   *)
(* followed by more bytes or with its last bytes missing.                  *)
(***************************************************************************)
SAMPLE_MASKING_KEY == <<1, 2, 3, 4>>
NO_MASKING_KEY == <<0, 0, 0, 0>>
\* "hi"
SAMPLE_PAYLOAD == <<104, 105>>
\* an empty masked frame that follows another in the buffer
NEXT_FRAME == <<129, 128, 1, 2, 3, 4>>

\* the number n as k bytes, big-endian
RECURSIVE to_bytes_big(_, _)
to_bytes_big(n, k) ==
    IF k = 0 THEN <<>> ELSE to_bytes_big(n \div 256, k - 1) \o <<n % 256>>

\* the length indicator and the extended length of a payload of n bytes
EncodedLength(n) ==
    IF n <= 125 THEN <<n>>
    ELSE IF n <= 65535 THEN <<126>> \o to_bytes_big(n, 2)
    ELSE <<127>> \o to_bytes_big(n, 8)

\* the bytes of the frame f = [mask, key, payload]
EncodeFrame(f) ==
    With(EncodedLength(Len(f.payload)), LAMBDA len :
        <<129>>
        \o <<(IF f.mask THEN 128 ELSE 0) + len[1]>> \o Tail(len)
        \o (IF f.mask THEN f.key ELSE <<>>)
        \o (IF f.mask THEN unmask(f.payload, f.key) ELSE f.payload))

\* where the masking key (or, unmasked, the payload) of the frame starts,
\* counted from 0: behind the first byte and the bytes of the length
KeyStartOf(f) == 1 + Len(EncodedLength(Len(f.payload)))

\* the buffer of the input b = [frame, trailing, cut]: the frame without
\* its last cut bytes, or the frame and the bytes that follow it
BufferOf(b) ==
    With(EncodeFrame(b.frame), LAMBDA bytes :
        SubSeq(bytes, 1, Len(bytes) - b.cut) \o b.trailing)

Frame(mask, key, payload) == [mask |-> mask, key |-> key, payload |-> payload]
Input(frame, trailing, cut) == [frame |-> frame, trailing |-> trailing, cut |-> cut]

\* payload lengths around the three forms of the length
BoundaryLengths == {1, 125, 126, 127, 128, 65535, 65536}

FrameInputs ==
    \* whole frames, masked and not, alone and followed by the next frame
    {Input(Frame(m, SAMPLE_MASKING_KEY, p), t, 0) :
        m \in BOOLEAN, p \in {<<>>, SAMPLE_PAYLOAD}, t \in {<<>>, NEXT_FRAME}}
    \* the masked "hi" frame, of 8 bytes, cut in the payload, in the key,
    \* after the first byte and to nothing
    \cup {Input(Frame(TRUE, SAMPLE_MASKING_KEY, SAMPLE_PAYLOAD), <<>>, c) :
            c \in {1, 3, 7, 8}}
    \* whole masked frames of the boundary lengths
    \cup {Input(Frame(TRUE, NO_MASKING_KEY, zero_bytes(n)), <<>>, 0) :
            n \in BoundaryLengths}

NewFrameProbe ==
    [fn |-> "WebsocketFrame", self |-> WebsocketFrame, exc |-> "", inputs |-> <<>>]

InitFrame ==
    /\ InitReactor
    /\ probe = NewFrameProbe

\* frame.populateFromWebsocketFrameMessage(BufferOf(b)) on the one object
call_populateFromWebsocketFrameMessage(b) ==
    /\ probe.fn = "WebsocketFrame"
    /\ Len(probe.inputs) < MaxCalls
    /\ \E r \in {populateFromWebsocketFrameMessage(probe.self, BufferOf(b))} :
          probe' = [probe EXCEPT !.self = r.self, !.exc = r.exc,
                                 !.inputs = Append(@, b)]
    /\ UNCHANGED <<pc, input_sockets, ws_sockets, readable_sockets, client_socket,
                   message, error, listen_queue, peer, tosend, frames, rx, closed,
                   sent, request_of, calls, nrecv>>

NextFrame == \E b \in FrameInputs : call_populateFromWebsocketFrameMessage(b)

SpecFrame == InitFrame /\ [][NextFrame]_vars

\* the object has been given a buffer; the last one it was given
Populated == probe.fn = "WebsocketFrame" /\ probe.inputs # <<>>
LastInput == probe.inputs[Len(probe.inputs)]
\* ... which held its frame whole
PopulatedWhole == Populated /\ LastInput.cut = 0

\* C14: of a whole frame the decoder finds the length the frame was built
\* with and the place of the masking key, in each form of the length
C14_LengthRecovered ==
    PopulatedWhole =>
        /\ probe.exc = ""
        /\ probe.self._payload_length = Len(LastInput.frame.payload)
        /\ probe.self._mask_key_start = KeyStartOf(LastInput.frame)

\* C15: of a buffer that starts with a whole frame, get_payload_data is the
\* payload the frame was built from: unmasked with the key, or as sent, and
\* none of the bytes that follow the frame
C15_PayloadExact ==
    PopulatedWhole =>
        /\ probe.exc = ""
        /\ get_payload_data(probe.self) = LastInput.frame.payload

\* C17: a frame whose mask bit is 0 is rejected, and its payload is not
\* what get_payload_data returns
C17_UnmaskedRejected ==
    PopulatedWhole /\ ~LastInput.frame.mask =>
        /\ probe.exc # ""
        /\ LastInput.frame.payload # <<>> =>
              get_payload_data(probe.self) # LastInput.frame.payload

\* C18: a buffer that lacks bytes of its frame raises no error, and the
\* payload the object holds has the length the object holds
C18_TruncatedIsIncomplete ==
    Populated =>
        /\ LastInput.cut > 0 => probe.exc = ""
        /\ probe.exc = "" =>
              Len(get_payload_data(probe.self)) = probe.self._payload_length

\* C19: after a whole frame of length 0, get_payload_data is empty,
\* whatever the object was given before
C19_EmptyFrameEmptyPayload ==
    PopulatedWhole /\ LastInput.frame.payload = <<>> =>
        get_payload_data(probe.self) = <<>>

====
